---- MODULE Spec2Model ----
(***************************************************************************)
(* AlphaAlocator (src/src/main.rs): a fixed arena of MEMORY_SIZE bytes, a  *)
(* table used_slots of SLOT_SIZE records {size, index}, an atomic counter  *)
(* free, an atomic counter times_called and a journal historic.            *)
(* alloc and dealloc are modelled twice: as whole calls (one thread) and   *)
(* as the steps between lock acquisitions and atomic operations (threads). *)
(* A panic! of alloc ends the call with the panic's reason as its result;  *)
(* the eprintln! branches of dealloc end it with the reason reported.      *)
(* print_historic only reads the journal; what println! and the panic      *)
(* machinery do inside the standard library is not modelled.               *)
(* find_free_offset is also applied to tables drawn from a bounded set.    *)
(* The bump-pointer variant (src/alocator/src/main.rs, static A) is the    *)
(* variable A, with its own alloc and dealloc as whole calls.              *)
(***************************************************************************)
EXTENDS Integers, Sequences, FiniteSets, TLC

\* ------------------------------------------------------------------------
\* Sizes of the model.  The arena, the table and the journal are scaled down.
MEMORY_SIZE == 100
SLOT_SIZE == 5
HISTORIC_SIZE == 2
\* alloc is called at most MaxCalls times by one thread (times_called is
\* unbounded in the code), at most MaxCallsMisuse times when callers also
\* pass addresses they do not hold, at most MaxCallsConc times by the threads
MaxCalls == 6
MaxCallsMisuse == 3
MaxCallsConc == 3
\* calls of dealloc with an address the caller does not hold
MaxMisuse == 1
\* alloc is called at most MaxCallsAligned times when the layouts ask for an alignment
MaxCallsAligned == 3
\* address of memory[0]
BASE == 16
\* usize arithmetic wraps modulo USIZE_MOD (the width is scaled down)
USIZE_MOD == 1073741824
\* u32 holds the values below U32_MOD (the width is scaled down with usize's)
U32_MOD == 32768
\* alloc is called at most MaxCallsJournal times when layouts wider than u32 are passed
MaxCallsJournal == 3
\* alloc of the bump-pointer variant is called at most MaxCallsA times
MaxCallsA == 4
\* the bump-pointer variant: length of memory, used_slots and historic, and
\* the value of the field size (3072 in src/alocator/src/main.rs, scaled down)
A_SIZE == 6

\* layout.size() of the requests
Sizes == {10, 15, 70}
\* a layout.size() that does not fit u32
HugeSize == U32_MOD + 10
\* layout.align() of the requests: powers of two
Aligns == {1, 2, 4, 8}
\* layout.size() of the requests made to the bump-pointer variant
ASizes == {1, 2, 3}
\* the threads that call alloc and dealloc
Threads == {"t1", "t2"}

\* Option::None of a journal slot
None == 0

VARIABLES
    used_slots,    \* Mutex<[Slot; SLOT_SIZE]>: sequence of [size, index]
    free,          \* AtomicUsize
    times_called,  \* AtomicUsize
    historic,      \* Mutex<[Option<u32>; HISTORIC_SIZE]>: None or a size
    poisoned,      \* used_slots' mutex is poisoned: a thread panicked holding it
    overflow_checks, \* the build panics on usize overflow (debug) or wraps (release)
    owned,         \* blocks the callers hold: returned by alloc, not yet passed to dealloc
    last,          \* the call that returned last: [op, size, align, ptr, result]
    req_sum,       \* sum of the sizes of the alloc calls so far
    misuses,       \* number of dealloc calls with an address the caller does not hold
    mutex,         \* holder of used_slots' lock across steps: "free", a thread, "obs"
    hist_mutex,    \* holder of historic's lock across steps: "free" or a thread
    pc,            \* per thread: the step its call is at
    loc,           \* per thread: size, offset, ptr of its call and the call's result
    obs,           \* the reading thread: [pc, free_seen]
    A              \* static A of src/alocator/src/main.rs, the bump-pointer variant:
                   \* [times_called, free, used_slots, next_offset, historic] and,
                   \* as in owned and last, the blocks held and the last call

vars == <<used_slots, free, times_called, historic, poisoned, overflow_checks,
          owned, last, req_sum, misuses, mutex, hist_mutex, pc, loc, obs, A>>

Slot(size, index) == [size |-> size, index |-> index]

\* ------------------------------------------------------------------------
\* reg_historic: write size into the first None slot, if any
FirstNone(h) ==
    IF \E i \in 1..Len(h) : h[i] = None
    THEN CHOOSE i \in 1..Len(h) : h[i] = None /\ \A j \in 1..(i-1) : h[j] # None
    ELSE 0

\* size as u32
AsU32(size) == size % U32_MOD

reg_historic(h, size) ==
    IF FirstNone(h) = 0 THEN h ELSE [h EXCEPT ![FirstNone(h)] = AsU32(size)]

\* identify_adress: Some(offset) as [some |-> TRUE, offset], None as [some |-> FALSE]
identify_adress(ptr) ==
    IF ptr < BASE THEN [some |-> FALSE, offset |-> 0]
    ELSE IF ptr - BASE < MEMORY_SIZE THEN [some |-> TRUE, offset |-> ptr - BASE]
    ELSE [some |-> FALSE, offset |-> 0]

\* ------------------------------------------------------------------------
\* find_free_offset

\* step 1: the records in use, in slot order
CollectUsed(slots) == SelectSeq(slots, LAMBDA s : s.size > 0)

\* one inner pass of the bubble sort: j runs from j to limit (1-based)
RECURSIVE BubblePass(_, _, _)
BubblePass(blocks, j, limit) ==
    IF j > limit THEN blocks
    ELSE IF blocks[j].index > blocks[j + 1].index
         THEN BubblePass([blocks EXCEPT ![j] = blocks[j + 1], ![j + 1] = blocks[j]],
                         j + 1, limit)
         ELSE BubblePass(blocks, j + 1, limit)

\* step 2: the outer loop, i from i to used_count - 1 (0-based as in the code)
RECURSIVE BubbleSort(_, _)
BubbleSort(blocks, i) ==
    IF i >= Len(blocks) THEN blocks
    ELSE BubbleSort(BubblePass(blocks, 1, Len(blocks) - 1 - i), i + 1)

SortedUsed(slots) == BubbleSort(CollectUsed(slots), 0)

\* usize subtraction: wraps, or panics when the build checks overflow
WrapSub(a, b) == (a - b + USIZE_MOD) % USIZE_MOD
WrapAdd(a, b) == (a + b) % USIZE_MOD

FoundAt(off) == [kind |-> "Some", offset |-> off]
NotFound == [kind |-> "None", offset |-> 0]
Overflow == [kind |-> "Panic", offset |-> 0]

\* BetweenBlocks that takes the first gap that is not empty (size not compared)
RECURSIVE BetweenBlocks_AnyGap(_, _, _, _)
BetweenBlocks_AnyGap(blocks, i, size, checks) ==
    IF i > Len(blocks) - 1 THEN [kind |-> "Skip", offset |-> 0]
    ELSE LET end_this == blocks[i].index + blocks[i].size
             next_index == blocks[i + 1].index
         IN  IF next_index < end_this /\ checks THEN Overflow
             ELSE IF WrapSub(next_index, end_this) > 0 THEN FoundAt(end_this)
             ELSE BetweenBlocks_AnyGap(blocks, i + 1, size, checks)

\* step 4: gaps between consecutive blocks, from pair i on; "Skip" when none fits
RECURSIVE BetweenBlocks(_, _, _, _)
BetweenBlocks(blocks, i, size, checks) ==
    IF i > Len(blocks) - 1 THEN [kind |-> "Skip", offset |-> 0]
    ELSE LET end_this == blocks[i].index + blocks[i].size
             next_index == blocks[i + 1].index
         IN  IF next_index < end_this /\ checks THEN Overflow
             ELSE IF WrapSub(next_index, end_this) >= size THEN FoundAt(end_this)
             ELSE BetweenBlocks(blocks, i + 1, size, checks)

\* AfterLast with > for >= (a request that fills the arena exactly is refused)
AfterLast_Strict(blocks, size, checks) ==
    LET last_block == blocks[Len(blocks)]
        end_last == last_block.index + last_block.size
    IN  IF MEMORY_SIZE < end_last /\ checks THEN Overflow
        ELSE IF WrapSub(MEMORY_SIZE, end_last) > size THEN FoundAt(end_last)
        ELSE NotFound

\* AfterLast without the comparison of space_after with size
AfterLast_Unchecked(blocks, size, checks) ==
    LET last_block == blocks[Len(blocks)]
        end_last == last_block.index + last_block.size
    IN  IF MEMORY_SIZE < end_last /\ checks THEN Overflow
        ELSE FoundAt(end_last)

\* step 5: after the last block
AfterLast(blocks, size, checks) ==
    LET last_block == blocks[Len(blocks)]
        end_last == last_block.index + last_block.size
    IN  IF MEMORY_SIZE < end_last /\ checks THEN Overflow
        ELSE IF WrapSub(MEMORY_SIZE, end_last) >= size THEN FoundAt(end_last)
        ELSE NotFound

\* find_free_offset without the look at the space before the first block
find_free_offset_NoHead(slots, size, checks) ==
    LET temp_blocks == SortedUsed(slots)
        used_count == Len(temp_blocks)
    IN  IF used_count = 0
        THEN IF size <= MEMORY_SIZE THEN FoundAt(0) ELSE NotFound
        ELSE LET between == BetweenBlocks(temp_blocks, 1, size, checks)
             IN  IF between.kind # "Skip" THEN between
                 ELSE AfterLast(temp_blocks, size, checks)

find_free_offset(slots, size, checks) ==
    LET temp_blocks == SortedUsed(slots)
        used_count == Len(temp_blocks)
    IN  IF used_count = 0
        THEN IF size <= MEMORY_SIZE THEN FoundAt(0) ELSE NotFound
        ELSE IF temp_blocks[1].index >= size THEN FoundAt(0)
        ELSE LET between == BetweenBlocks(temp_blocks, 1, size, checks)
             IN  IF between.kind # "Skip" THEN between
                 ELSE AfterLast(temp_blocks, size, checks)

\* ------------------------------------------------------------------------
\* register_slot: the first slot with size = 0, or 0 when there is none
FirstEmpty(slots) ==
    IF \E i \in 1..Len(slots) : slots[i].size = 0
    THEN CHOOSE i \in 1..Len(slots) :
            slots[i].size = 0 /\ \A j \in 1..(i-1) : slots[j].size # 0
    ELSE 0

register_slot(slots, offset, size) ==
    IF FirstEmpty(slots) = 0 THEN slots
    ELSE [slots EXCEPT ![FirstEmpty(slots)] = Slot(size, offset)]

\* dealloc's search: the first slot with index = offset, or 0
FindByIndex(slots, offset) ==
    IF \E i \in 1..Len(slots) : slots[i].index = offset
    THEN CHOOSE i \in 1..Len(slots) :
            slots[i].index = offset /\ \A j \in 1..(i-1) : slots[j].index # offset
    ELSE 0

\* ------------------------------------------------------------------------
\* alloc with the budget checked against the arena's length, not against free
AllocOutcome_NoBudget(slots, fr, size, checks, pois) ==
    IF size > MEMORY_SIZE
    THEN [result |-> "InsufficientTotal", slots |-> slots, free |-> fr, ptr |-> 0,
          pois |-> pois]
    ELSE LET found == find_free_offset(slots, size, checks)
         IN  IF found.kind = "Some"
             THEN IF FirstEmpty(slots) # 0
                  THEN [result |-> "Fulfilled",
                        slots |-> register_slot(slots, found.offset, size),
                        free |-> WrapSub(fr, size),
                        ptr |-> BASE + found.offset, pois |-> pois]
                  ELSE [result |-> "TableExhausted", slots |-> slots, free |-> fr,
                        ptr |-> 0, pois |-> pois]
             ELSE [result |-> "Fragmentation", slots |-> slots, free |-> fr, ptr |-> 0,
                   pois |-> pois]

\* alloc with free.fetch_sub before register_slot, not undone when the table is full
AllocOutcome_SubFirst(slots, fr, size, checks, pois) ==
    IF size > fr
    THEN [result |-> "InsufficientTotal", slots |-> slots, free |-> fr, ptr |-> 0,
          pois |-> pois]
    ELSE LET found == find_free_offset(slots, size, checks)
         IN  IF found.kind = "Some"
             THEN IF FirstEmpty(slots) # 0
                  THEN [result |-> "Fulfilled",
                        slots |-> register_slot(slots, found.offset, size),
                        free |-> WrapSub(fr, size),
                        ptr |-> BASE + found.offset, pois |-> pois]
                  ELSE [result |-> "TableExhausted", slots |-> slots,
                        free |-> WrapSub(fr, size), ptr |-> 0, pois |-> pois]
             ELSE [result |-> "Fragmentation", slots |-> slots, free |-> fr, ptr |-> 0,
                   pois |-> pois]

\* ------------------------------------------------------------------------
\* One whole alloc(size) call by a single thread on (slots, fr): lines 168-193.
\* pois: used_slots' mutex is poisoned, so lock().unwrap() panics.
AllocOutcome(slots, fr, size, checks, pois) ==
    IF size > fr
    THEN [result |-> "InsufficientTotal", slots |-> slots, free |-> fr, ptr |-> 0,
          pois |-> pois]
    ELSE IF pois
    THEN [result |-> "Poisoned", slots |-> slots, free |-> fr, ptr |-> 0, pois |-> pois]
    ELSE LET found == find_free_offset(slots, size, checks)
         IN  IF found.kind = "Some"
             THEN IF FirstEmpty(slots) # 0
                  THEN [result |-> "Fulfilled",
                        slots |-> register_slot(slots, found.offset, size),
                        free |-> WrapSub(fr, size),
                        ptr |-> BASE + found.offset, pois |-> pois]
                  ELSE [result |-> "TableExhausted", slots |-> slots, free |-> fr,
                        ptr |-> 0, pois |-> pois]
             ELSE IF found.kind = "None"
             THEN [result |-> "Fragmentation", slots |-> slots, free |-> fr, ptr |-> 0,
                   pois |-> pois]
             ELSE [result |-> "Overflow", slots |-> slots, free |-> fr, ptr |-> 0,
                   pois |-> TRUE]

\* One whole dealloc(ptr, size) call by a single thread on (slots, fr)
DeallocOutcome(slots, fr, ptr, size, pois) ==
    LET id == identify_adress(ptr)
    IN  IF id.some
        THEN IF pois
             THEN [result |-> "Poisoned", slots |-> slots, free |-> fr]
             ELSE LET k == FindByIndex(slots, id.offset)
                  IN  IF k # 0
                      THEN [result |-> "Released",
                            slots |-> [slots EXCEPT ![k] = Slot(0, 0)],
                            free |-> WrapAdd(fr, size)]
                      ELSE [result |-> "NoMatchingBlock", slots |-> slots, free |-> fr]
        ELSE [result |-> "UnknownAddress", slots |-> slots, free |-> fr]

\* ------------------------------------------------------------------------
\* The bump-pointer variant, src/alocator/src/main.rs

\* static A
InitA ==
    [times_called |-> 0,
     free |-> A_SIZE,
     used_slots |-> [i \in 1..A_SIZE |-> Slot(0, 0)],
     next_offset |-> 0,
     historic |-> [i \in 1..A_SIZE |-> None],
     owned |-> {},
     last |-> [op |-> "none", size |-> 0, ptr |-> 0, result |-> "none"]]

\* alocate_slot: the first slot with size = 0 takes (index, size); 0 when none
A_alocate_slot(slots, index, size) ==
    IF FirstEmpty(slots) = 0 THEN slots
    ELSE [slots EXCEPT ![FirstEmpty(slots)] = Slot(size, index)]

\* identify_adress: ptr - &memory[0] in usize; below the base the subtraction
\* panics or wraps to an offset that is not below size, None either way
A_identify_adress(ptr) ==
    IF ptr < BASE THEN [some |-> FALSE, offset |-> 0]
    ELSE IF ptr - BASE < A_SIZE THEN [some |-> TRUE, offset |-> ptr - BASE]
    ELSE [some |-> FALSE, offset |-> 0]

\* reg_historic: the first None slot of the journal takes size as u32
A_reg_historic(h, size) ==
    IF FirstNone(h) = 0 THEN h ELSE [h EXCEPT ![FirstNone(h)] = AsU32(size)]

\* GlobalAlloc::alloc of the variant, the whole call by one thread
A_alloc(size) ==
    LET counted == [A EXCEPT !.historic = A_reg_historic(A.historic, size),
                             !.times_called = A.times_called + 1]
        old_offset == A.next_offset
    IN  IF size > A.free
        THEN A' = [counted EXCEPT
                      !.last = [op |-> "alloc", size |-> size, ptr |-> 0,
                                result |-> "OutOfMemory"]]
        ELSE IF old_offset + size > A_SIZE
        THEN A' = [counted EXCEPT
                      !.next_offset = WrapSub(WrapAdd(A.next_offset, size), size),
                      !.last = [op |-> "alloc", size |-> size, ptr |-> 0,
                                result |-> "OutOfMemory"]]
        ELSE IF FirstEmpty(A.used_slots) # 0
        THEN A' = [counted EXCEPT
                      !.next_offset = WrapAdd(A.next_offset, size),
                      !.free = WrapSub(A.free, size),
                      !.used_slots = A_alocate_slot(A.used_slots, old_offset, size),
                      !.owned = A.owned \cup {[ptr |-> BASE + old_offset, size |-> size]},
                      !.last = [op |-> "alloc", size |-> size, ptr |-> BASE + old_offset,
                                result |-> "Fulfilled"]]
        ELSE A' = [counted EXCEPT
                      !.next_offset = WrapSub(WrapAdd(A.next_offset, size), size),
                      !.free = WrapAdd(WrapSub(A.free, size), size),
                      !.last = [op |-> "alloc", size |-> size, ptr |-> 0,
                                result |-> "Null"]]

\* GlobalAlloc::dealloc of the variant: the record at position offset of the
\* table (guard[dealocated_index], counted from 0) is cleared
A_dealloc(ptr, size) ==
    LET id == A_identify_adress(ptr)
    IN  IF ~id.some
        THEN A' = [A EXCEPT
                      !.owned = {b \in A.owned : b.ptr # ptr},
                      !.last = [op |-> "dealloc", size |-> size, ptr |-> ptr,
                                result |-> "Panic"]]
        ELSE A' = [A EXCEPT
                      !.used_slots = [A.used_slots EXCEPT ![id.offset + 1] = Slot(0, 0)],
                      !.owned = {b \in A.owned : b.ptr # ptr},
                      !.last = [op |-> "dealloc", size |-> size, ptr |-> ptr,
                                result |-> "Released"]]

\* ------------------------------------------------------------------------
\* AlphaAlocator::new, and the callers before their first call
InitAlocator ==
    /\ used_slots = [i \in 1..SLOT_SIZE |-> Slot(0, 0)]
    /\ free = MEMORY_SIZE
    /\ times_called = 0
    /\ historic = [i \in 1..HISTORIC_SIZE |-> None]
    /\ poisoned = FALSE
    /\ owned = {}
    /\ last = [op |-> "none", size |-> 0, align |-> 1, ptr |-> 0, result |-> "none"]
    /\ req_sum = 0
    /\ misuses = 0
    /\ mutex = "free"
    /\ hist_mutex = "free"
    /\ pc = [t \in Threads |-> "idle"]
    /\ loc = [t \in Threads |-> [size |-> 0, offset |-> 0, ptr |-> 0, result |-> "none"]]
    /\ obs = [pc |-> "idle", free_seen |-> 0]
    /\ A = InitA

\* One thread: up to the first overflow a build that wraps and a build that
\* panics behave alike, and the panic is recorded as the result "Overflow".
Init == InitAlocator /\ overflow_checks = TRUE

threadVars == <<mutex, hist_mutex, pc, loc, obs>>

\* GlobalAlloc::alloc, the whole call; layout.align() is never read
alloc(size, align) ==
    LET out == AllocOutcome(used_slots, free, size, overflow_checks, poisoned)
    IN  /\ historic' = reg_historic(historic, size)
        /\ times_called' = times_called + 1
        /\ used_slots' = out.slots
        /\ free' = out.free
        /\ poisoned' = out.pois
        /\ owned' = IF out.result = "Fulfilled"
                    THEN owned \cup {[ptr |-> out.ptr, size |-> size]}
                    ELSE owned
        /\ last' = [op |-> "alloc", size |-> size, align |-> align, ptr |-> out.ptr,
                    result |-> out.result]
        /\ UNCHANGED <<overflow_checks, misuses, threadVars, A>>

\* GlobalAlloc::dealloc, the whole call
dealloc(ptr, size) ==
    LET out == DeallocOutcome(used_slots, free, ptr, size, poisoned)
    IN  /\ used_slots' = out.slots
        /\ free' = out.free
        /\ owned' = {b \in owned : b.ptr # ptr}
        /\ last' = [op |-> "dealloc", size |-> size, align |-> 1, ptr |-> ptr,
                    result |-> out.result]
        /\ UNCHANGED <<times_called, historic, poisoned, overflow_checks, req_sum,
                       threadVars, A>>

\* a caller allocates
Allocate ==
    /\ times_called < MaxCalls
    /\ \E size \in Sizes : alloc(size, 1)
    /\ UNCHANGED req_sum

\* a caller releases a block it holds, with the size it asked for
Release ==
    /\ \E b \in owned : dealloc(b.ptr, b.size)
    /\ UNCHANGED misuses

Next == Allocate \/ Release

\* One thread, every dealloc passes a block returned by alloc and not yet released
Spec == Init /\ [][Next]_vars

\* ------------------------------------------------------------------------
\* Only alloc is called; req_sum adds up the requested sizes
AllocateOnly ==
    /\ times_called < MaxCalls
    /\ \E size \in Sizes : alloc(size, 1) /\ req_sum' = req_sum + size

SpecAllocOnly == Init /\ [][AllocateOnly]_vars

\* ------------------------------------------------------------------------
\* Callers whose layouts ask for an alignment
AllocateAligned ==
    /\ times_called < MaxCallsAligned
    /\ \E size \in Sizes, align \in Aligns : alloc(size, align)
    /\ UNCHANGED req_sum

NextAligned == AllocateAligned \/ Release

SpecAligned == Init /\ [][NextAligned]_vars

\* ------------------------------------------------------------------------
\* Callers that also pass dealloc addresses they do not hold: outside the
\* arena, inside a block, of a block already released, or offset 0
MisusePtrs == {BASE - 1, BASE, BASE + 5, BASE + 10, BASE + MEMORY_SIZE}

Held(ptr) == \E b \in owned : b.ptr = ptr

AllocateMisuse ==
    /\ times_called < MaxCallsMisuse
    /\ \E size \in Sizes : alloc(size, 1)
    /\ UNCHANGED req_sum

Misuse ==
    /\ misuses < MaxMisuse
    /\ \E ptr \in MisusePtrs, size \in Sizes :
          /\ ~Held(ptr)
          /\ dealloc(ptr, size)
    /\ misuses' = misuses + 1

NextMisuse == AllocateMisuse \/ Release \/ Misuse

SpecMisuse == Init /\ [][NextMisuse]_vars

\* ------------------------------------------------------------------------
\* Callers that also ask for more bytes than u32 can count
AllocateAnySize ==
    /\ times_called < MaxCallsJournal
    /\ \E size \in Sizes \cup {HugeSize} : alloc(size, 1)
    /\ UNCHANGED req_sum

NextJournal == AllocateAnySize \/ Release

SpecJournal == Init /\ [][NextJournal]_vars

\* ------------------------------------------------------------------------
\* Callers that release a block they hold with a layout of another size
ReleaseWrongSize ==
    /\ misuses < MaxMisuse
    /\ \E b \in owned, size \in Sizes :
          /\ size # b.size
          /\ dealloc(b.ptr, size)
    /\ misuses' = misuses + 1

NextWrongSize == AllocateMisuse \/ Release \/ ReleaseWrongSize

SpecWrongSize == Init /\ [][NextWrongSize]_vars

\* ------------------------------------------------------------------------
\* The bump-pointer variant called by one thread that releases blocks it holds
mainVars == <<used_slots, free, times_called, historic, poisoned, overflow_checks,
              owned, last, req_sum, misuses, threadVars>>

A_Allocate ==
    /\ A.times_called < MaxCallsA
    /\ \E size \in ASizes : A_alloc(size)
    /\ UNCHANGED mainVars

A_Release ==
    /\ \E b \in A.owned : A_dealloc(b.ptr, b.size)
    /\ UNCHANGED mainVars

NextA == A_Allocate \/ A_Release

SpecA == Init /\ [][NextA]_vars

\* ------------------------------------------------------------------------
\* find_free_offset as a function of the table: the table is drawn
\* from the tables of SLOT_SIZE records, each empty or one of ProbeBlocks,
\* whose records in use are pairwise disjoint; free is what the records leave
ProbeBlocks ==
    {Slot(size, index) : size \in {10, 30}, index \in {0, 7, 20, 40, 90}}
ProbeSlots == {Slot(0, 0)} \cup {b \in ProbeBlocks : b.index + b.size <= MEMORY_SIZE}
\* layout.size() of the calls made on these tables
ProbeSizes == {1, 3, 10, 20, 30, 50, 100, 101}

RECURSIVE SumSizesOf(_, _)
SumSizesOf(slots, i) ==
    IF i > Len(slots) THEN 0 ELSE slots[i].size + SumSizesOf(slots, i + 1)

Disjoint(slots) ==
    \A i, j \in 1..Len(slots) :
        (i < j /\ slots[i].size > 0 /\ slots[j].size > 0) =>
            \/ slots[i].index + slots[i].size <= slots[j].index
            \/ slots[j].index + slots[j].size <= slots[i].index

InitTables ==
    /\ used_slots \in [1..SLOT_SIZE -> ProbeSlots]
    /\ Disjoint(used_slots)
    /\ free = MEMORY_SIZE - SumSizesOf(used_slots, 1)
    /\ times_called = 0
    /\ historic = [i \in 1..HISTORIC_SIZE |-> None]
    /\ poisoned = FALSE
    /\ overflow_checks \in BOOLEAN
    /\ owned = {[ptr |-> BASE + used_slots[i].index, size |-> used_slots[i].size] :
                  i \in {j \in 1..SLOT_SIZE : used_slots[j].size > 0}}
    /\ last = [op |-> "none", size |-> 0, align |-> 1, ptr |-> 0, result |-> "none"]
    /\ req_sum = 0
    /\ misuses = 0
    /\ mutex = "free"
    /\ hist_mutex = "free"
    /\ pc = [t \in Threads |-> "idle"]
    /\ loc = [t \in Threads |-> [size |-> 0, offset |-> 0, ptr |-> 0, result |-> "none"]]
    /\ obs = [pc |-> "idle", free_seen |-> 0]
    /\ A = InitA

\* find_free_offset(size) on the table; last keeps the answer: result is the
\* kind (Some, None, Panic) and ptr the offset
FindProbe ==
    /\ last.op = "none"
    /\ \E size \in ProbeSizes :
          LET found == find_free_offset(used_slots, size, overflow_checks)
          IN  last' = [op |-> "find", size |-> size, align |-> 1, ptr |-> found.offset,
                       result |-> found.kind]
    /\ UNCHANGED <<used_slots, free, times_called, historic, poisoned, overflow_checks,
                   owned, req_sum, misuses, threadVars, A>>

SpecTables == InitTables /\ [][FindProbe]_vars

\* ------------------------------------------------------------------------
\* Threads.  A step is what a thread does from one lock acquisition or atomic
\* operation to the next; a section that holds one lock and touches no atomic
\* is one step, unless another lock could be asked for inside it.
InitThreads == InitAlocator /\ overflow_checks \in BOOLEAN

seqVars == <<last, req_sum, misuses, A>>

Goto(t, label) == pc' = [pc EXCEPT ![t] = label]
Return(t, result) ==
    /\ pc' = [pc EXCEPT ![t] = "idle"]
    /\ loc' = [loc EXCEPT ![t].result = result]
\* print_historic() and then panic!(..): the call ends with result once the
\* journal is printed
PrintThenPanic(t, result) ==
    /\ pc' = [pc EXCEPT ![t] = "print"]
    /\ loc' = [loc EXCEPT ![t].result = result]

\* calls of alloc that have not yet counted themselves in times_called
Uncounted == {u \in Threads : pc[u] \in {"hist", "write", "count"}}

\* alloc is entered with a layout
AllocStart(t) ==
    /\ pc[t] = "idle"
    /\ times_called + Cardinality(Uncounted) < MaxCallsConc
    /\ \E size \in Sizes :
          loc' = [loc EXCEPT ![t] = [size |-> size, offset |-> 0, ptr |-> 0,
                                     result |-> "running"]]
    /\ Goto(t, "hist")
    /\ UNCHANGED <<used_slots, free, times_called, historic, poisoned, overflow_checks,
                   owned, seqVars, mutex, hist_mutex, obs>>

\* alloc line 165, reg_historic line 39: historic.lock()
AllocHistLock(t) ==
    /\ pc[t] = "hist"
    /\ hist_mutex = "free"
    /\ hist_mutex' = t
    /\ Goto(t, "write")
    /\ UNCHANGED <<used_slots, free, times_called, historic, poisoned, overflow_checks,
                   owned, seqVars, mutex, loc, obs>>

\* reg_historic lines 40-45: the first empty journal slot is written, the guard dropped
AllocHistWrite(t) ==
    /\ pc[t] = "write"
    /\ historic' = reg_historic(historic, loc[t].size)
    /\ hist_mutex' = "free"
    /\ Goto(t, "count")
    /\ UNCHANGED <<used_slots, free, times_called, poisoned, overflow_checks, owned,
                   seqVars, mutex, loc, obs>>

\* alloc line 166: times_called.fetch_add
AllocCount(t) ==
    /\ pc[t] = "count"
    /\ times_called' = times_called + 1
    /\ Goto(t, "budget")
    /\ UNCHANGED <<used_slots, free, historic, poisoned, overflow_checks, owned,
                   seqVars, mutex, hist_mutex, loc, obs>>

\* alloc lines 169-172: free.load and the budget check
AllocBudget(t) ==
    /\ pc[t] = "budget"
    /\ IF loc[t].size > free
       THEN PrintThenPanic(t, "InsufficientTotal")
       ELSE Goto(t, "find") /\ UNCHANGED loc
    /\ UNCHANGED <<used_slots, free, times_called, historic, poisoned, overflow_checks,
                   owned, seqVars, mutex, hist_mutex, obs>>

\* alloc line 175: find_free_offset, under used_slots' lock
AllocFind(t) ==
    /\ pc[t] = "find"
    /\ mutex = "free"
    /\ IF poisoned
       THEN Return(t, "Poisoned") /\ UNCHANGED poisoned
       ELSE LET found == find_free_offset(used_slots, loc[t].size, overflow_checks)
            IN  IF found.kind = "Some"
                THEN /\ loc' = [loc EXCEPT ![t].offset = found.offset]
                     /\ Goto(t, "register")
                     /\ UNCHANGED poisoned
                ELSE IF found.kind = "None"
                THEN PrintThenPanic(t, "Fragmentation") /\ UNCHANGED poisoned
                ELSE Return(t, "Overflow") /\ poisoned' = TRUE
    /\ UNCHANGED <<used_slots, free, times_called, historic, overflow_checks, owned,
                   seqVars, mutex, hist_mutex, obs>>

\* alloc line 177: register_slot, under used_slots' lock taken again
AllocRegister(t) ==
    /\ pc[t] = "register"
    /\ mutex = "free"
    /\ IF poisoned
       THEN Return(t, "Poisoned") /\ UNCHANGED used_slots
       ELSE IF FirstEmpty(used_slots) # 0
       THEN /\ used_slots' = register_slot(used_slots, loc[t].offset, loc[t].size)
            /\ Goto(t, "sub")
            /\ UNCHANGED loc
       ELSE PrintThenPanic(t, "TableExhausted") /\ UNCHANGED used_slots
    /\ UNCHANGED <<free, times_called, historic, poisoned, overflow_checks, owned,
                   seqVars, mutex, hist_mutex, obs>>

\* alloc lines 179-183: free.fetch_sub, then the pointer is returned
AllocSub(t) ==
    /\ pc[t] = "sub"
    /\ free' = WrapSub(free, loc[t].size)
    /\ pc' = [pc EXCEPT ![t] = "idle"]
    /\ loc' = [loc EXCEPT ![t].ptr = BASE + loc[t].offset, ![t].result = "Fulfilled"]
    /\ owned' = owned \cup {[ptr |-> BASE + loc[t].offset, size |-> loc[t].size]}
    /\ UNCHANGED <<used_slots, times_called, historic, poisoned, overflow_checks,
                   seqVars, mutex, hist_mutex, obs>>

\* alloc lines 170, 186, 191, print_historic line 50: historic.lock()
PrintLock(t) ==
    /\ pc[t] = "print"
    /\ hist_mutex = "free"
    /\ hist_mutex' = t
    /\ Goto(t, "printed")
    /\ UNCHANGED <<used_slots, free, times_called, historic, poisoned, overflow_checks,
                   owned, seqVars, mutex, loc, obs>>

\* print_historic lines 51-56: the journal is printed, the guard dropped; then
\* the panic! of lines 171, 187, 192 ends the call
PrintUnlock(t) ==
    /\ pc[t] = "printed"
    /\ hist_mutex' = "free"
    /\ Goto(t, "idle")
    /\ UNCHANGED <<used_slots, free, times_called, historic, poisoned, overflow_checks,
                   owned, seqVars, mutex, loc, obs>>

\* dealloc line 198: identify_adress of a block the caller holds
DeallocStart(t) ==
    /\ pc[t] = "idle"
    /\ \E b \in owned :
          LET id == identify_adress(b.ptr)
          IN  /\ owned' = owned \ {b}
              /\ IF ~id.some
                 THEN Return(t, "UnknownAddress")
                 ELSE /\ pc' = [pc EXCEPT ![t] = "lock"]
                      /\ loc' = [loc EXCEPT ![t] = [size |-> b.size, offset |-> id.offset,
                                                    ptr |-> b.ptr, result |-> "running"]]
    /\ UNCHANGED <<used_slots, free, times_called, historic, poisoned, overflow_checks,
                   seqVars, mutex, hist_mutex, obs>>

\* dealloc lines 199-205, 209-211: lock used_slots, find and clear the slot
DeallocLock(t) ==
    /\ pc[t] = "lock"
    /\ mutex = "free"
    /\ LET k == FindByIndex(used_slots, loc[t].offset)
       IN  IF poisoned
           THEN /\ Return(t, "Poisoned")
                /\ UNCHANGED <<used_slots, mutex>>
           ELSE IF k # 0
           THEN /\ used_slots' = [used_slots EXCEPT ![k] = Slot(0, 0)]
                /\ mutex' = t
                /\ Goto(t, "add")
                /\ UNCHANGED loc
           ELSE /\ Return(t, "NoMatchingBlock")
                /\ UNCHANGED <<used_slots, mutex>>
    /\ UNCHANGED <<free, times_called, historic, poisoned, overflow_checks, owned,
                   seqVars, hist_mutex, obs>>

\* dealloc line 207: free.fetch_add, the guard still held
DeallocAdd(t) ==
    /\ pc[t] = "add"
    /\ free' = WrapAdd(free, loc[t].size)
    /\ Goto(t, "unlock")
    /\ UNCHANGED <<used_slots, times_called, historic, poisoned, overflow_checks, owned,
                   seqVars, mutex, hist_mutex, loc, obs>>

\* dealloc returns without dropping used_slots' guard
DeallocUnlock_KeepsGuard(t) ==
    /\ pc[t] = "unlock"
    /\ Return(t, "Released")
    /\ UNCHANGED <<used_slots, free, times_called, historic, poisoned, overflow_checks,
                   owned, seqVars, mutex, hist_mutex, obs>>

\* dealloc line 208: the guard is dropped, the call returns
DeallocUnlock(t) ==
    /\ pc[t] = "unlock"
    /\ mutex' = "free"
    /\ Return(t, "Released")
    /\ UNCHANGED <<used_slots, free, times_called, historic, poisoned, overflow_checks,
                   owned, seqVars, hist_mutex, obs>>

\* a step of a call that thread t has entered
CallStep(t) ==
    \/ AllocHistLock(t)
    \/ AllocHistWrite(t)
    \/ AllocCount(t)
    \/ AllocBudget(t)
    \/ AllocFind(t)
    \/ AllocRegister(t)
    \/ AllocSub(t)
    \/ PrintLock(t)
    \/ PrintUnlock(t)
    \/ DeallocLock(t)
    \/ DeallocAdd(t)
    \/ DeallocUnlock(t)

ThreadStep ==
    \E t \in Threads :
        \/ AllocStart(t)
        \/ DeallocStart(t)
        \/ CallStep(t)

SpecThreads == InitThreads /\ [][ThreadStep]_vars

\* Every thread that is inside a call and can take a step eventually takes one:
\* the scheduler runs every thread, a lock that stays free is obtained
SpecThreadsFair ==
    InitThreads /\ [][ThreadStep]_vars /\ \A t \in Threads : WF_vars(CallStep(t))

\* ------------------------------------------------------------------------
\* A third thread that locks used_slots, loads free, and unlocks
ObsLock ==
    /\ obs.pc = "idle"
    /\ mutex = "free"
    /\ ~poisoned
    /\ mutex' = "obs"
    /\ obs' = [obs EXCEPT !.pc = "locked"]
    /\ UNCHANGED <<used_slots, free, times_called, historic, poisoned, overflow_checks,
                   owned, seqVars, hist_mutex, pc, loc>>

ObsLoad ==
    /\ obs.pc = "locked"
    /\ obs' = [pc |-> "loaded", free_seen |-> free]
    /\ UNCHANGED <<used_slots, free, times_called, historic, poisoned, overflow_checks,
                   owned, seqVars, mutex, hist_mutex, pc, loc>>

ObsUnlock ==
    /\ obs.pc = "loaded"
    /\ mutex' = "free"
    /\ obs' = [pc |-> "idle", free_seen |-> 0]
    /\ UNCHANGED <<used_slots, free, times_called, historic, poisoned, overflow_checks,
                   owned, seqVars, hist_mutex, pc, loc>>

NextObserved == ThreadStep \/ ObsLock \/ ObsLoad \/ ObsUnlock

SpecObserved == InitThreads /\ [][NextObserved]_vars

\* ------------------------------------------------------------------------
\* What the claims speak of

\* the records in use, as a set of [size, index]
LiveBlocks(slots) == {slots[i] : i \in {j \in 1..Len(slots) : slots[j].size > 0}}

RECURSIVE SumSizes(_, _)
SumSizes(slots, i) == IF i > Len(slots) THEN 0 ELSE slots[i].size + SumSizes(slots, i + 1)
\* sum of size over the records in use (an empty record adds 0)
SumLive(slots) == SumSizes(slots, 1)

TableFull(slots) == \A i \in 1..Len(slots) : slots[i].size > 0

\* [o, o + size) lies in the arena and meets no record in use
RangeFree(slots, o, size) ==
    /\ o + size <= MEMORY_SIZE
    /\ \A i \in 1..Len(slots) :
          slots[i].size > 0 =>
             \/ slots[i].index + slots[i].size <= o
             \/ o + size <= slots[i].index

\* some gap before, between or after the records in use holds size bytes
SomeGapFits(slots, size) == \E o \in 0..MEMORY_SIZE : RangeFree(slots, o, size)

\* byte x is inside a block a caller holds
HeldByte(x) == \E b \in owned : b.ptr - BASE <= x /\ x < b.ptr - BASE + b.size

\* the step is a whole alloc call / the call returned by this step
AllocStep == times_called' = times_called + 1
Unchanged == used_slots' = used_slots /\ free' = free

\* C1: no two records in use overlap, under any interleaving of the threads
C1_NoOverlap ==
    \A i, j \in 1..SLOT_SIZE :
        (i < j /\ used_slots[i].size > 0 /\ used_slots[j].size > 0) =>
            \/ used_slots[i].index + used_slots[i].size <= used_slots[j].index
            \/ used_slots[j].index + used_slots[j].size <= used_slots[i].index

\* C2: one thread, valid calls: free plus the sizes of the records in use is
\* MEMORY_SIZE after every call
C2_Conservation == free + SumLive(used_slots) = MEMORY_SIZE

\* C3: a dealloc of an address the caller does not hold (outside the arena, or
\* not the offset of a live block) is reported and changes neither table nor free
C3_InvalidReleaseRejected ==
    [][misuses' = misuses + 1 =>
          /\ last'.result \in {"UnknownAddress", "NoMatchingBlock"}
          /\ Unchanged]_vars

\* C4: only allocs, sizes summing to at most MEMORY_SIZE, at most SLOT_SIZE of
\* them: the call that returned last (so every call) was fulfilled, inside the arena
C4_AllFulfilled ==
    (times_called > 0 /\ req_sum <= MEMORY_SIZE /\ times_called <= SLOT_SIZE) =>
        /\ last.result = "Fulfilled"
        /\ last.ptr - BASE \in 0..(MEMORY_SIZE - 1)

C4_Witness ==
    /\ times_called = SLOT_SIZE
    /\ req_sum <= MEMORY_SIZE
    /\ last.result = "Fulfilled"
    /\ Cardinality(owned) = SLOT_SIZE

\* C5: a block of length L at offset o was just released and no byte below o is
\* free: the next call, alloc(S) with S <= L, returns o
C5_ReuseAfterRelease ==
    [][(/\ last.op = "dealloc"
        /\ \A x \in 0..(last.ptr - BASE - 1) : HeldByte(x)
        /\ \A x \in (last.ptr - BASE)..(last.ptr - BASE + last.size - 1) : ~HeldByte(x)
        /\ AllocStep
        /\ last'.size <= last.size)
       => (last'.result = "Fulfilled" /\ last'.ptr = last.ptr)]_vars

\* C6: alloc(S) with S above free is rejected as InsufficientTotal and leaves
\* used_slots and free as they were
C6_InsufficientTotal ==
    [][(AllocStep /\ last'.size > free) =>
          (last'.result = "InsufficientTotal" /\ Unchanged)]_vars

C6_Witness ==
    /\ last.op = "alloc"
    /\ last.size > free
    /\ last.result = "InsufficientTotal"
    /\ SumLive(used_slots) > 0

\* C7: alloc(S) with S <= free and no gap of S bytes is rejected as
\* Fragmentation and leaves used_slots and free as they were
C7_Fragmentation ==
    [][(AllocStep /\ last'.size <= free /\ ~SomeGapFits(used_slots, last'.size)) =>
          (last'.result = "Fragmentation" /\ Unchanged)]_vars

C7_Witness ==
    /\ last.op = "alloc"
    /\ last.size <= free
    /\ ~SomeGapFits(used_slots, last.size)
    /\ last.result = "Fragmentation"

ThreeTens == {Slot(10, 0), Slot(10, 20), Slot(10, 40)}

\* C8 as stated: three live 10-byte blocks at 0, 20, 40: alloc(15) is rejected
\* as Fragmentation
C8_Original ==
    [][(LiveBlocks(used_slots) = ThreeTens /\ AllocStep /\ last'.size = 15) =>
          last'.result = "Fragmentation"]_vars

\* C8 as amended: three live 10-byte blocks at 0, 20, 40: alloc(15) passes the
\* two 10-byte gaps and is fulfilled at offset 50, after the last block
C8_FulfilledAfterLast ==
    [][(LiveBlocks(used_slots) = ThreeTens /\ AllocStep /\ last'.size = 15) =>
          /\ last'.result = "Fulfilled"
          /\ last'.ptr = BASE + 50
          /\ LiveBlocks(used_slots') = ThreeTens \cup {Slot(15, 50)}]_vars

C8_Witness ==
    /\ LiveBlocks(used_slots) = ThreeTens \cup {Slot(15, 50)}
    /\ last = [op |-> "alloc", size |-> 15, align |-> 1, ptr |-> BASE + 50,
               result |-> "Fulfilled"]
    /\ free = MEMORY_SIZE - 45

\* C9: alloc(S) that passes the budget check and finds a gap while every record
\* is in use is rejected as TableExhausted, free and used_slots as they were
C9_TableExhausted ==
    [][(/\ AllocStep
        /\ last'.size <= free
        /\ SomeGapFits(used_slots, last'.size)
        /\ TableFull(used_slots))
       => (last'.result = "TableExhausted" /\ Unchanged)]_vars

C9_Witness ==
    /\ last.op = "alloc"
    /\ last.result = "TableExhausted"
    /\ TableFull(used_slots)
    /\ last.size <= free
    /\ free = MEMORY_SIZE - SumLive(used_slots)

\* C10: a third thread that holds used_slots' lock and loads free sees
\* free plus the sizes of the records in use equal to MEMORY_SIZE
C10_ObservedAgreement ==
    obs.pc = "loaded" => obs.free_seen + SumLive(used_slots) = MEMORY_SIZE

\* C11: a fulfilled alloc returns an offset that is a multiple of the alignment
\* its layout asked for
C11_AlignedOffset ==
    (last.op = "alloc" /\ last.result = "Fulfilled") =>
        (last.ptr - BASE) % last.align = 0

\* thread t is inside a call / holds no lock
InCall(t) == pc[t] # "idle"
HoldsNone(t) == mutex # t /\ hist_mutex # t

\* C12: under weak fairness of every thread each call that was entered
\* returns (fulfilled, or rejected with its reason); a state with a call in
\* progress has a thread that can step; no thread holds used_slots' lock and
\* historic's lock together; a thread that has returned holds no lock
C12_CallsReturn ==
    /\ \A t \in Threads : InCall(t) ~> (~InCall(t) /\ loc[t].result # "running")
    /\ []((\E t \in Threads : InCall(t)) => (\E t \in Threads : ENABLED CallStep(t)))
    /\ [](\A t \in Threads : ~(mutex = t /\ hist_mutex = t))
    /\ [](\A t \in Threads : ~InCall(t) => HoldsNone(t))

\* a dealloc holding used_slots' guard while an alloc of the other thread
\* waits for it at find_free_offset, its journal entry written
C12_Witness ==
    /\ pc["t1"] = "add" /\ mutex = "t1"
    /\ pc["t2"] = "find"
    /\ historic[1] # None

\* C13: on a table whose records in use are disjoint and inside the arena,
\* find_free_offset(S) returns the lowest offset o with [o, o + S) inside the
\* arena and clear of every record in use, and None exactly when there is none
C13_FirstFit ==
    (last.op = "find" /\ Disjoint(used_slots)) =>
        IF SomeGapFits(used_slots, last.size)
        THEN /\ last.result = "Some"
             /\ RangeFree(used_slots, last.ptr, last.size)
             /\ \A o \in 0..(last.ptr - 1) : ~RangeFree(used_slots, o, last.size)
        ELSE last.result = "None"

\* the answer is a gap with room to spare although a later gap fits exactly
C13_Witness ==
    /\ last.op = "find" /\ last.result = "Some" /\ last.ptr > 0
    /\ RangeFree(used_slots, last.ptr + 1, last.size)
    /\ \E o \in (last.ptr + 2)..MEMORY_SIZE :
          /\ RangeFree(used_slots, o, last.size)
          /\ ~RangeFree(used_slots, o - 1, last.size)
          /\ ~RangeFree(used_slots, o + 1, last.size)

\* positions of the records in use
LivePositions(slots) == {i \in 1..Len(slots) : slots[i].size > 0}
\* the step is a dealloc of the address of a record in use
ReleasesLive ==
    /\ last'.op = "dealloc"
    /\ \E i \in LivePositions(used_slots) : used_slots[i].index = last'.ptr - BASE

\* C14: one thread: after a dealloc of the address of a live block no record
\* in use has that offset, one record in use less is left, and the records in
\* use at other offsets are as before
C14_ReleaseFrame ==
    [][ReleasesLive =>
          /\ \A i \in LivePositions(used_slots') :
                used_slots'[i].index # last'.ptr - BASE
          /\ Cardinality(LivePositions(used_slots')) =
                Cardinality(LivePositions(used_slots)) - 1
          /\ \A i \in LivePositions(used_slots) :
                used_slots[i].index # last'.ptr - BASE => used_slots'[i] = used_slots[i]
      ]_vars

\* size stored in the record the step clears: the record of used_slots that
\* the step changes, or a record that was empty already (size 0)
ClearedSize ==
    IF \E i \in 1..SLOT_SIZE : used_slots'[i] # used_slots[i]
    THEN used_slots[CHOOSE i \in 1..SLOT_SIZE : used_slots'[i] # used_slots[i]].size
    ELSE 0

\* C15: a dealloc that succeeds adds to free the size stored in the record it
\* clears, whatever size its layout carries
C15_CreditsStoredSize ==
    [][(last'.op = "dealloc" /\ last'.result = "Released") =>
          free' = free + ClearedSize]_vars

\* C16: free stays within 0..MEMORY_SIZE under every interleaving
C16_FreeInRange == free \in 0..MEMORY_SIZE

\* C17: one thread: every record in use lies inside the arena
C17_RecordsInArena ==
    \A i \in LivePositions(used_slots) :
        /\ 0 <= used_slots[i].index
        /\ used_slots[i].index < MEMORY_SIZE
        /\ used_slots[i].index + used_slots[i].size <= MEMORY_SIZE

\* a block placed by alloc ends at the arena's last byte
C17_Witness ==
    /\ last.op = "alloc" /\ last.result = "Fulfilled"
    /\ \E i \in LivePositions(used_slots) :
          /\ used_slots[i].index = last.ptr - BASE
          /\ used_slots[i].index + used_slots[i].size = MEMORY_SIZE

\* C18: every alloc(S), fulfilled or rejected, writes S into the first empty
\* journal slot, or leaves a full journal as it is; no step changes a slot
\* that is filled
C18_JournalAppend ==
    [][/\ AllocStep =>
             historic' = IF \A i \in 1..HISTORIC_SIZE : historic[i] # None
                         THEN historic
                         ELSE [historic EXCEPT ![FirstNone(historic)] = last'.size]
       /\ \A i \in 1..HISTORIC_SIZE : historic[i] # None => historic'[i] = historic[i]
      ]_vars

\* the step is a dealloc, by the bump-pointer variant, of the address of a
\* record in use
A_ReleasesLive ==
    /\ A'.last.op = "dealloc"
    /\ A'.times_called = A.times_called
    /\ \E i \in LivePositions(A.used_slots) :
          A.used_slots[i].index = A'.last.ptr - BASE

\* C19: the bump-pointer variant: a dealloc of the address of a live block
\* clears the record whose index is the block's offset, leaves the records of
\* the other live blocks as they are, and adds the block's size to free
C19_BumpRelease ==
    [][A_ReleasesLive =>
          LET offset == A'.last.ptr - BASE
          IN  /\ \A i \in LivePositions(A'.used_slots) :
                    A'.used_slots[i].index # offset
              /\ \A i \in LivePositions(A.used_slots) :
                    A.used_slots[i].index # offset =>
                        A'.used_slots[i] = A.used_slots[i]
              /\ \E i \in LivePositions(A.used_slots) :
                    /\ A.used_slots[i].index = offset
                    /\ A'.free = A.free + A.used_slots[i].size
      ]_vars

\* the table with the records of positions i and j exchanged
Swap(slots, i, j) == [slots EXCEPT ![i] = slots[j], ![j] = slots[i]]
\* what an alloc(size) called now returns: the result and the address
OutcomeOn(slots, size) ==
    LET out == AllocOutcome(slots, free, size, overflow_checks, poisoned)
    IN  <<out.result, out.ptr>>

\* C20: with no call in progress, what alloc(S) returns is the same on the
\* table and on the table with two slot positions exchanged, for every S
C20_OrderIndependent ==
    (\A t \in Threads : pc[t] = "idle") =>
        \A i, j \in 1..SLOT_SIZE, size \in Sizes :
            OutcomeOn(Swap(used_slots, i, j), size) = OutcomeOn(used_slots, size)

====
